---- MODULE Spec2Model ----
(***************************************************************************)
(* A model of pymare/results.py: the MetaRegressionResults container       *)
(* (get_fe_stats, get_re_stats, to_df and their lru_cache memoisation),    *)
(* the permutation_test procedure and the CombinationTestResults           *)
(* container (its z and p properties).                                     *)
(*                                                                         *)
(* Conventions.  A numpy matrix of shape (rows, cols) is a sequence of     *)
(* columns, each column a sequence of rows: m[j][k] is numpy's m[k, j].    *)
(* Indices are 1-based where Python's are 0-based.  Real numbers are exact *)
(* rationals [num, den] with den > 0.                                     *)
(* alpha is held in thousandths (50 is 0.05).                              *)
(***************************************************************************)
EXTENDS Integers, Sequences, FiniteSets, TLC

VARIABLES
    dataset,      \* results.dataset: [y, v, n, X]
    estimator,    \* results.estimator (its name)
    results,      \* the MetaRegressionResults under test: [fe_params, fe_cov, tau2]
    n_perm_arg,   \* the n_perm argument of permutation_test
    pc,           \* position inside permutation_test
    n_obs, n_datasets, has_mods, rfx, n_exact, exact, n_perm,
    perms, signs, i, y_perm, v_perm, params, fe_stats, re_stats, fe_p, tau_p,
    ret,          \* the PermutationTestResults returned
    fe_cache,     \* lru_cache of get_fe_stats (shared by all instances)
    re_cache,     \* lru_cache of get_re_stats (shared by all instances)
    next_id,      \* identity of the next object allocated
    insts,        \* the MetaRegressionResults instances of the container model
    calls,        \* number of container calls made so far
    last,         \* the last container call and its outcome
    fe_first,     \* history: (instance, alpha) -> first stats object computed
    combs,        \* the CombinationTestResults instances
    z_cache,      \* lru_cache of CombinationTestResults.z (shared by all instances)
    p_cache       \* lru_cache of CombinationTestResults.p (shared by all instances)

ptvars == <<pc, n_obs, n_datasets, has_mods, rfx, n_exact, exact, n_perm,
            perms, signs, i, y_perm, v_perm, params, fe_stats, re_stats,
            fe_p, tau_p, ret>>
invars == <<dataset, estimator, results, n_perm_arg>>
cachevars == <<fe_cache, re_cache, next_id>>
convars == <<insts, calls, last, fe_first>>
combvars == <<combs, z_cache, p_cache>>
vars == <<invars, ptvars, cachevars, convars, combvars>>

(***************************************************************************)
(* Bounds of the model and constants of the program.                       *)
(***************************************************************************)
MaxObs == 3
MaxDatasets == 2
MaxCells == 4
MaxCalls == 3
DefaultPerm == 1000
DefaultAlpha == 50
FeCacheSize == 16
ReCacheSize == 16
WarnIters == 10

\* Python's None, and a value that is not None
NoneVal == [some |-> FALSE]
Some(x) == [some |-> TRUE, val |-> x]

(***************************************************************************)
(* Arithmetic helpers.                                                     *)
(***************************************************************************)
Abs(x) == IF x < 0 THEN -x ELSE x

RECURSIVE Factorial(_)
Factorial(m) == IF m <= 1 THEN 1 ELSE m * Factorial(m - 1)

RECURSIVE SumSeq(_)
SumSeq(s) == IF s = <<>> THEN 0 ELSE Head(s) + SumSeq(Tail(s))

Dot(a, b) == SumSeq([k \in 1..Len(a) |-> a[k] * b[k]])
Dot3(a, b, c) == SumSeq([k \in 1..Len(a) |-> a[k] * b[k] * c[k]])

RECURSIVE Gcd(_, _)
Gcd(a, b) == IF b = 0 THEN a ELSE Gcd(b, a % b)

\* the fraction a/b, b > 0, in lowest terms
Rat(a, b) ==
    LET g == Gcd(Abs(a), b)
    IN  [num |-> a \div g, den |-> b \div g]

\* a/b < c/d for a, c >= 0 and b, d > 0, by the Euclidean expansion (the
\* cross products of the fitted coefficients do not fit a machine integer)
RECURSIVE LessNN(_, _, _, _)
LessNN(a, b, c, d) ==
    LET qa == a \div b
        qc == c \div d
        ra == a % b
        rc == c % d
    IN  IF qa # qc THEN qa < qc
        ELSE IF rc = 0 THEN FALSE
        ELSE IF ra = 0 THEN TRUE
        ELSE LessNN(d, rc, b, ra)

RatLess(p, q) ==
    IF p.num < 0
    THEN IF q.num >= 0 THEN TRUE ELSE LessNN(-q.num, q.den, -p.num, p.den)
    ELSE IF q.num < 0 THEN FALSE ELSE LessNN(p.num, p.den, q.num, q.den)

RatLeq(p, q) == ~RatLess(q, p)
RatEq(p, q) == ~RatLess(p, q) /\ ~RatLess(q, p)
RatAbs(p) == Rat(Abs(p.num), p.den)

(***************************************************************************)
(* itertools and numpy primitives used by permutation_test.                *)
(***************************************************************************)
MinOf(S) == CHOOSE x \in S : \A y \in S : x <= y

RECURSIVE Flatten(_)
Flatten(ss) == IF ss = <<>> THEN <<>> ELSE Head(ss) \o Flatten(Tail(ss))

RECURSIVE SetToSeq(_)
SetToSeq(S) == IF S = {} THEN <<>>
               ELSE LET m == MinOf(S) IN <<m>> \o SetToSeq(S \ {m})

\* itertools.permutations(range(n)): every ordering once, lexicographically
RECURSIVE ItertoolsPermutations(_)
ItertoolsPermutations(S) ==
    IF S = {} THEN << <<>> >>
    ELSE LET order == SetToSeq(S)
         IN  Flatten([a \in 1..Len(order) |->
                 LET tails == ItertoolsPermutations(S \ {order[a]})
                 IN  [t \in 1..Len(tails) |-> <<order[a]>> \o tails[t]]])

\* np.array(list(itertools.product([-1, 1], repeat=n))).T: column j is the
\* j-th sign pattern, -1 before 1, the first row varying slowest
ItertoolsProduct(n) ==
    [j \in 1..(2^n) |->
        [k \in 1..n |-> IF ((j - 1) \div (2^(n - k))) % 2 = 0 THEN -1 ELSE 1]]

Orderings(n) == LET ps == ItertoolsPermutations(1..n)
                IN  {ps[t] : t \in 1..Len(ps)}
SignPatterns(n) == [1..n -> {-1, 1}]

\* a[inds]: fancy indexing
Take(a, inds) == [k \in 1..Len(inds) |-> a[inds[k]]]
\* a * s, elementwise
Times(a, s) == [k \in 1..Len(a) |-> a[k] * s[k]]

\* np.repeat(col[:, None], reps, axis=1): a NEW array of reps copies of col.
\* owner records whose memory the array's data lives in.
RepeatView(col, reps) == [owner |-> "input", cols |-> [j \in 1..reps |-> col]]
Repeat(col, reps) == [owner |-> "fresh", cols |-> [j \in 1..reps |-> col]]

\* the effect of writing the columns of arr in place on the input column
\* src: none when arr owns its data, the last write when arr is a view of src
WriteThrough(src, arr) ==
    IF arr.owner = "fresh" \/ arr.cols = <<>> THEN src
    ELSE arr.cols[Len(arr.cols)]
(***************************************************************************)
(* The estimators behind results.estimator.  Their code is not part of     *)
(* results.py; they are modelled from the specification's section 4.2:     *)
(* a fixed-effect weighted least squares fit (weights 1/v), the Hedges     *)
(* method-of-moments fit (tau2 floored at 0, then weights 1/(v + tau2)),   *)
(* and a sample-size-based fixed-effect fit (effective variance            *)
(* sigma2/n, so weights proportional to n).  A vectorised fit is one       *)
(* independent fit per column.                                             *)
(***************************************************************************)
Estimators == {"WLS", "Hedges", "SampleSize"}

\* the argument names of estimator._fit, as getfullargspec(...).args lists them
FitArgs(est) ==
    CASE est = "WLS"        -> <<"self", "y", "X", "v">>
      [] est = "Hedges"     -> <<"self", "y", "v", "X">>
      [] est = "SampleSize" -> <<"self", "y", "n", "X">>

\* the values a sampling variance takes in the model
VVals == {1, 2}

RECURSIVE ProdSeq(_)
ProdSeq(s) == IF s = <<>> THEN 1 ELSE Head(s) * ProdSeq(Tail(s))

\* an integer proportional to 1/(vk + T/N): the product of N*u + T over the
\* other values u a variance can take
InvVar(vk, N, T) ==
    LET others == SetToSeq(VVals \ {vk})
    IN  ProdSeq([a \in 1..Len(others) |-> N * others[a] + T])

\* beta = (X'WX)^-1 X'Wy and the inverse of X'WX, for one or two predictors,
\* with integer weights w that stand for the weights w * sd / sn (Cramer's
\* rule).  The common scale cancels in beta and multiplies the inverse.
WLSSolve(y, w, X, sn, sd) ==
    IF Len(X) = 1
    THEN LET c == X[1].vals
             den == Dot3(w, c, c)
         IN  [beta |-> <<Rat(Dot3(w, c, y), den)>>,
              cov  |-> << <<Rat(sn, sd * den)>> >>]
    ELSE LET c1 == X[1].vals
             c2 == X[2].vals
             A11 == Dot3(w, c1, c1)
             A12 == Dot3(w, c1, c2)
             A22 == Dot3(w, c2, c2)
             B1 == Dot3(w, c1, y)
             B2 == Dot3(w, c2, y)
             det == A11 * A22 - A12 * A12
         IN  [beta |-> <<Rat(A22 * B1 - A12 * B2, det),
                         Rat(A11 * B2 - A12 * B1, det)>>,
              cov  |-> << <<Rat(sn * A22, sd * det), Rat(-sn * A12, sd * det)>>,
                          <<Rat(-sn * A12, sd * det), Rat(sn * A11, sd * det)>> >>]

\* Hedges' moment estimate: max(0, MSE_ols - mean(v)), MSE_ols the ordinary
\* least squares residual mean square on n - p degrees of freedom
HedgesTau2(y, v, X) ==
    LET n == Len(y)
        p == Len(X)
        one == [k \in 1..n |-> 1]
        c1 == X[1].vals
        c2 == IF p = 2 THEN X[2].vals ELSE one
        G11 == Dot(c1, c1)
        G12 == Dot(c1, c2)
        G22 == Dot(c2, c2)
        b1 == Dot(c1, y)
        b2 == Dot(c2, y)
        D0 == IF p = 1 THEN G11 ELSE G11 * G22 - G12 * G12
        fitted == IF p = 1 THEN b1 * b1
                  ELSE G22 * b1 * b1 - 2 * G12 * b1 * b2 + G11 * b2 * b2
        rss == D0 * Dot(y, y) - fitted
        t == n * rss - D0 * (n - p) * SumSeq(v)
    IN  Rat(IF t < 0 THEN 0 ELSE t, n * D0 * (n - p))

\* estimator._fit(y=, X=, v= or n=) on one column
Fit(est, y, v, X) ==
    LET tau == IF est = "Hedges" THEN HedgesTau2(y, v, X) ELSE Rat(0, 1)
        w == CASE est = "WLS"        -> [k \in 1..Len(y) |-> InvVar(v[k], 1, 0)]
               [] est = "SampleSize" -> v
               [] est = "Hedges"     ->
                      [k \in 1..Len(y) |-> InvVar(v[k], tau.den, tau.num)]
        all == SetToSeq(VVals)
        scale == ProdSeq([a \in 1..Len(all) |-> tau.den * all[a] + tau.num])
        sol == IF est = "SampleSize" THEN WLSSolve(y, w, X, 1, 1)
               ELSE WLSSolve(y, w, X, scale, tau.den)
    IN  [fe_params |-> sol.beta, inv_cov |-> sol.cov, tau2 |-> tau]

\* estimator._fit on a batch: fe_params has one column per column of y
FitBatch(est, ycols, vcols, X) ==
    LET fits == [j \in 1..Len(ycols) |-> Fit(est, ycols[j], vcols[j], X)]
    IN  IF est = "Hedges"
        THEN [fe_params |-> [j \in 1..Len(ycols) |-> fits[j].fe_params],
              tau2 |-> [j \in 1..Len(ycols) |-> fits[j].tau2]]
        ELSE [fe_params |-> [j \in 1..Len(ycols) |-> fits[j].fe_params]]

\* estimator.fit(dataset).summary(): the MetaRegressionResults of a dataset
Summary(est, ds) ==
    LET d == Len(ds.y)
        uses_v == \E a \in 2..Len(FitArgs(est)) : FitArgs(est)[a] = "v"
        fits == [c \in 1..d |->
                    Fit(est, ds.y[c], IF uses_v THEN ds.v[c] ELSE ds.n[c], ds.X)]
    IN  [fe_params |-> [c \in 1..d |-> fits[c].fe_params],
         fe_cov |-> [c \in 1..d |-> fits[c].inv_cov],
         tau2 |-> IF est = "Hedges" THEN Some([c \in 1..d |-> fits[c].tau2])
                  ELSE NoneVal]

(***************************************************************************)
(* Datasets.  X is a sequence of named columns; the intercept column is    *)
(* the column of ones the Dataset adds unless add_intercept=False.         *)
(***************************************************************************)
YKinds == {"pos", "neg"}
VKinds == {"equal", "alt"}
XKinds == {"intercept", "covariate", "both"}

YCol(kind, n) == [k \in 1..n |-> IF kind = "pos" THEN 2 * k ELSE -2 * k]
VCol(kind, n) == [k \in 1..n |-> IF kind = "equal" THEN 1 ELSE 1 + (k % 2)]
NCol(n) == [k \in 1..n |-> 10 * k]

Intercept(n) == [name |-> "intercept", vals |-> [k \in 1..n |-> 1]]
Covariate(n) == [name |-> "bork", vals |-> [k \in 1..n |-> k]]

Design(kind, n) ==
    CASE kind = "intercept" -> <<Intercept(n)>>
      [] kind = "covariate" -> <<Covariate(n)>>
      [] kind = "both"      -> <<Intercept(n), Covariate(n)>>

MakeDataset(n, ys, vk, xkind) ==
    [y |-> [c \in 1..Len(ys) |-> YCol(ys[c], n)],
     v |-> [c \in 1..Len(ys) |-> VCol(vk, n)],
     n |-> [c \in 1..Len(ys) |-> NCol(n)],
     X |-> Design(xkind, n)]

\* the design has a predictor that is not the intercept
HasModerators(X) == \E c \in 1..Len(X) : X[c].name # "intercept"
(***************************************************************************)
(* functools.lru_cache as the methods of MetaRegressionResults use it: one *)
(* cache per decorated function, shared by every instance, keyed by the    *)
(* call's arguments as written (self, the positional arguments, the        *)
(* keyword arguments), least recently used entry evicted beyond maxsize.   *)
(* A cache is a sequence of entries, most recently used last.              *)
(***************************************************************************)
Key(self, args, kw) == [self |-> self, args |-> args, kw |-> kw]

RemoveAt(s, a) == SubSeq(s, 1, a - 1) \o SubSeq(s, a + 1, Len(s))

LruCall(cache, maxsize, key, fresh) ==
    LET hits == {a \in 1..Len(cache) : cache[a].key = key}
    IN  IF hits # {}
        THEN LET a == CHOOSE b \in hits : TRUE
             IN  [cache |-> RemoveAt(cache, a) \o <<cache[a]>>,
                  value |-> cache[a].value, hit |-> TRUE]
        ELSE LET grown == Append(cache, [key |-> key, value |-> fresh])
             IN  [cache |-> IF Len(grown) > maxsize THEN Tail(grown) ELSE grown,
                  value |-> fresh, hit |-> FALSE]

\* the value of a keyword argument, NoneVal when it was not passed
Keyword(kw, name) ==
    LET at == {a \in 1..Len(kw) : kw[a][1] = name}
    IN  IF at = {} THEN NoneVal ELSE Some(kw[CHOOSE a \in at : TRUE][2])

\* the parameter at position pos (after self) named name, with its default
Bind(args, kw, pos, name, default) ==
    IF Len(args) >= pos THEN args[pos]
    ELSE IF Keyword(kw, name).some THEN Keyword(kw, name).val
    ELSE default

(***************************************************************************)
(* MetaRegressionResults.get_fe_stats, get_re_stats and to_df.             *)
(***************************************************************************)
\* the stats dict a run of get_fe_stats' body builds: a new object; se, z, p
\* and the CI are functions of (beta, fe_cov, alpha) and are not expanded
FeStatsKeys == <<"est", "se", "ci_l", "ci_u", "z", "p">>
GetFeStats(self, beta, alpha, id) ==
    [id |-> id, self |-> self, alpha |-> alpha, est |-> beta]

\* np.atleast_2d(tau2).shape[1]
Atleast2dCols(tau2) == IF tau2.some THEN Len(tau2.val) ELSE 1

\* pymare.stats.q_profile(y[:, c], v[:, c], X, alpha): the two roots, named
QProfile(c, alpha) ==
    [ci_l |-> <<"ci_l", c, alpha>>, ci_u |-> <<"ci_u", c, alpha>>]

\* a run of get_re_stats' body
GetReStats(tau2, method, alpha, id) ==
    IF method = "QP"
    THEN LET n_iters == Atleast2dCols(tau2)
             cis == [c \in 1..n_iters |-> QProfile(c, alpha)]
         IN  [raised |-> FALSE,
              warned |-> n_iters > WarnIters,
              q_profile_calls |-> n_iters,
              value |-> [id |-> id, tau2 |-> tau2,
                         ci_l |-> [c \in 1..n_iters |-> cis[c].ci_l],
                         ci_u |-> [c \in 1..n_iters |-> cis[c].ci_u]]]
    ELSE [raised |-> TRUE, error |-> "ValueError",
          message |-> <<"Invalid CI method", method>>,
          warned |-> FALSE, q_profile_calls |-> 0]

(***************************************************************************)
(* permutation_test(results, n_perm).                                      *)
(***************************************************************************)
Zero == Rat(0, 1)

\* (obs < np.abs(fitted)).mean(axis): the fraction of fitted values whose
\* magnitude exceeds obs, obs taken as it is
ExceedFraction(obs, fitted) ==
    Rat(Cardinality({j \in 1..Len(fitted) : RatLess(obs, RatAbs(fitted[j]))}),
        Len(fitted))

\* np.maximum(1 / n, p)
FloorNone(n, p) == p
FloorAt(n, p) == IF RatLess(p, Rat(1, n)) THEN Rat(1, n) ELSE p

\* requested n_perm values: Monte Carlo batches of at most MaxCells cells,
\* and the default
NPermRequests(n) == {m \in 1..MaxCells : m * n <= MaxCells} \cup {DefaultPerm}

InitCaches ==
    /\ fe_cache = <<>>
    /\ re_cache = <<>>
    /\ next_id = 1

IdleContainer ==
    /\ insts = <<>>
    /\ calls = 0
    /\ last = [op |-> "none"]
    /\ fe_first = <<>>

IdleCombination ==
    /\ combs = <<>>
    /\ z_cache = <<>>
    /\ p_cache = <<>>

IdleLocals ==
    /\ n_obs = 0 /\ n_datasets = 0 /\ has_mods = FALSE /\ rfx = FALSE
    /\ n_exact = 0 /\ exact = FALSE /\ n_perm = 0
    /\ perms = <<>> /\ signs = <<>> /\ i = 0
    /\ y_perm = Repeat(<<>>, 0) /\ v_perm = Repeat(<<>>, 0)
    /\ params = [fe_params |-> <<>>]
    /\ fe_stats = NoneVal /\ re_stats = NoneVal
    /\ fe_p = <<>> /\ tau_p = NoneVal
    /\ ret = NoneVal

InitPerm ==
    /\ \E n \in 2..MaxObs, d \in 1..MaxDatasets, xk \in XKinds, est \in Estimators :
         \E ys \in [1..d -> YKinds], vs \in VKinds, np \in NPermRequests(n) :
            /\ est = "Hedges" => n > Len(Design(xk, n))
            /\ dataset = MakeDataset(n, ys, vs, xk)
            /\ estimator = est
            /\ results = Summary(est, MakeDataset(n, ys, vs, xk))
            /\ n_perm_arg = np
    /\ pc = "call"
    /\ IdleLocals
    /\ InitCaches
    /\ IdleContainer
    /\ IdleCombination

\* lines 174-195: shapes, observed statistics, result arrays, exact or not
Setup ==
    /\ pc = "call"
    /\ LET n == Len(dataset.y[1])
           d == Len(dataset.y)
           mods == Len(dataset.X) > 1
           fe == LruCall(fe_cache, FeCacheSize, Key(0, <<>>, <<>>),
                         GetFeStats(0, results.fe_params, DefaultAlpha, next_id))
           re == LruCall(re_cache, ReCacheSize, Key(0, <<>>, <<>>),
                         GetReStats(results.tau2, "QP", DefaultAlpha, next_id + 1).value)
           ne == IF mods THEN Factorial(n) ELSE 2^n
       IN  /\ n_obs' = n
           /\ n_datasets' = d
           /\ has_mods' = mods
           /\ fe_stats' = Some(fe.value)
           /\ re_stats' = Some(re.value)
           /\ fe_cache' = fe.cache
           /\ re_cache' = re.cache
           /\ next_id' = next_id + 2
           /\ fe_p' = [c \in 1..d |-> [r \in 1..Len(results.fe_params[c]) |-> Zero]]
           /\ rfx' = results.tau2.some
           /\ tau_p' = IF results.tau2.some THEN Some([c \in 1..d |-> Zero]) ELSE NoneVal
           /\ n_exact' = ne
           /\ perms' = IF ~mods /\ ne < n_perm_arg THEN ItertoolsProduct(n) ELSE <<>>
           /\ exact' = (ne < n_perm_arg)
           /\ n_perm' = IF ne < n_perm_arg THEN ne ELSE n_perm_arg
    /\ i' = 1
    /\ pc' = "repeat"
    /\ UNCHANGED <<invars, convars, combvars, signs, y_perm, v_perm, params, ret>>

\* the column of v or of n the estimator's _fit takes (lines 204-205)
HasV == \E a \in 2..Len(FitArgs(estimator)) : FitArgs(estimator)[a] = "v"
VSource == IF HasV THEN "v" ELSE "n"

\* lines 200-207: the private copies of column i.  What the previous
\* iteration left in signs and params is dead (both are assigned again before
\* they are read) and is dropped here.
RepeatColumns ==
    /\ pc = "repeat"
    /\ y_perm' = Repeat(dataset.y[i], n_perm)
    /\ v_perm' = Repeat(dataset[VSource][i], n_perm)
    /\ signs' = <<>>
    /\ params' = [fe_params |-> <<>>]
    /\ pc' = "permute"
    /\ UNCHANGED <<invars, convars, combvars, cachevars, n_obs, n_datasets, has_mods, rfx,
                   n_exact, exact, n_perm, perms, i, fe_stats,
                   re_stats, fe_p, tau_p, ret>>

\* the dataset after in-place writes to y_perm and v_perm
Written(yp, vp) ==
    [dataset EXCEPT !.y[i] = WriteThrough(@, yp),
                    ![VSource][i] = WriteThrough(@, vp)]

PermuteFrame ==
    /\ pc' = "fit"
    /\ UNCHANGED <<estimator, results, n_perm_arg, convars, combvars, cachevars, n_obs,
                   n_datasets, has_mods, rfx, n_exact, exact, n_perm, i, params,
                   fe_stats, re_stats, fe_p, tau_p, ret>>

\* lines 210-215: exact test with moderators, every ordering of the rows
PermuteExactOrderings ==
    /\ pc = "permute" /\ has_mods /\ exact
    /\ LET ps == ItertoolsPermutations(1..n_obs)
           yp == [y_perm EXCEPT !.cols =
                     [j \in 1..Len(ps) |-> Take(dataset.y[i], ps[j])]]
           vp == [v_perm EXCEPT !.cols =
                     [j \in 1..Len(ps) |-> Take(dataset[VSource][i], ps[j])]]
       IN  /\ perms' = ps
           /\ y_perm' = yp
           /\ v_perm' = vp
           /\ dataset' = Written(yp, vp)
    /\ UNCHANGED signs
    /\ PermuteFrame

\* lines 216-219: Monte Carlo test with moderators, each column of y_perm and
\* each column of v_perm shuffled by its own call of np.random.shuffle
PermuteShuffle ==
    /\ pc = "permute" /\ has_mods /\ ~exact
    /\ \E sy \in [1..n_perm -> Orderings(n_obs)], sv \in [1..n_perm -> Orderings(n_obs)] :
         LET yp == [y_perm EXCEPT !.cols =
                       [j \in 1..n_perm |-> Take(y_perm.cols[j], sy[j])]]
             vp == [v_perm EXCEPT !.cols =
                       [j \in 1..n_perm |-> Take(v_perm.cols[j], sv[j])]]
         IN  /\ y_perm' = yp
             /\ v_perm' = vp
             /\ dataset' = Written(yp, vp)
    /\ UNCHANGED <<perms, signs>>
    /\ PermuteFrame

\* lines 221-222: exact test without moderators, y_perm *= perms
PermuteExactSigns ==
    /\ pc = "permute" /\ ~has_mods /\ exact
    /\ LET yp == [y_perm EXCEPT !.cols =
                     [j \in 1..n_perm |-> Times(y_perm.cols[j], perms[j])]]
       IN  /\ y_perm' = yp
           /\ dataset' = Written(yp, v_perm)
    /\ UNCHANGED <<perms, signs, v_perm>>
    /\ PermuteFrame

\* lines 223-225: Monte Carlo test without moderators, random signs
PermuteRandomSigns ==
    /\ pc = "permute" /\ ~has_mods /\ ~exact
    /\ \E sg \in [1..n_perm -> SignPatterns(n_obs)] :
         LET yp == [y_perm EXCEPT !.cols =
                       [j \in 1..n_perm |-> Times(y_perm.cols[j], sg[j])]]
         IN  /\ signs' = sg
             /\ y_perm' = yp
             /\ dataset' = Written(yp, v_perm)
    /\ UNCHANGED <<perms, v_perm>>
    /\ PermuteFrame

\* lines 227-237: refit the batch, p-values of column i
FitAndCompare ==
    /\ pc = "fit"
    /\ LET fitted == FitBatch(estimator, y_perm.cols, v_perm.cols, dataset.X)
           fe_obs == fe_stats.val.est[i]
       IN  /\ params' = fitted
           /\ fe_p' = [fe_p EXCEPT ![i] =
                 [r \in 1..Len(fe_obs) |->
                     ExceedFraction(fe_obs[r],
                         [j \in 1..n_perm |-> fitted.fe_params[j][r]])]]
           /\ tau_p' = IF rfx
                       THEN Some([tau_p.val EXCEPT ![i] =
                                ExceedFraction(re_stats.val.tau2.val[i], fitted.tau2)])
                       ELSE tau_p
    /\ i' = i + 1
    /\ pc' = IF i < n_datasets THEN "repeat" ELSE "floor"
    /\ UNCHANGED <<invars, convars, combvars, cachevars, n_obs, n_datasets, has_mods, rfx,
                   n_exact, exact, n_perm, perms, signs, y_perm, v_perm,
                   fe_stats, re_stats, ret>>

\* lines 239-244: floor the p-values, build the PermutationTestResults
FloorAndReturn ==
    /\ pc = "floor"
    /\ LET fp == [c \in 1..Len(fe_p) |->
                    [r \in 1..Len(fe_p[c]) |-> FloorAt(n_perm, fe_p[c][r])]]
           tp == IF rfx
                 THEN Some([c \in 1..Len(tau_p.val) |-> FloorAt(n_perm, tau_p.val[c])])
                 ELSE tau_p
       IN  /\ fe_p' = fp
           /\ tau_p' = tp
           /\ ret' = Some([results |-> 0, n_perm |-> n_perm, fe_p |-> fp,
                           tau2_p |-> tp, exact |-> exact])
    /\ pc' = "done"
    /\ UNCHANGED <<invars, convars, combvars, cachevars, n_obs, n_datasets, has_mods, rfx,
                   n_exact, exact, n_perm, perms, signs, i, y_perm, v_perm,
                   params, fe_stats, re_stats>>

(***************************************************************************)
(* The container on its own: calls of get_fe_stats, get_re_stats and to_df *)
(* on MetaRegressionResults instances, in any order.                       *)
(***************************************************************************)
InstIds == {1, 2}
Alphas == {DefaultAlpha, 100}
Methods == {"QP", "PL"}

\* fe_params.shape
Shape(m) == <<Len(m[1]), Len(m)>>

MakeInst(d, xk, est) ==
    LET ds == MakeDataset(MaxObs, [c \in 1..d |-> "pos"], "alt", xk)
    IN  [dataset |-> ds, estimator |-> est, results |-> Summary(est, ds),
         X_names |-> [c \in 1..Len(ds.X) |-> ds.X[c].name]]

\* the ways the model passes alpha to get_fe_stats and to_df
AlphaCalls ==
    {[args |-> <<>>, kw |-> <<>>]}
    \cup {[args |-> <<a>>, kw |-> <<>>] : a \in Alphas}
    \cup {[args |-> <<>>, kw |-> << <<"alpha", DefaultAlpha>> >>]}

\* the ways the model passes alpha to to_df
ToDfCalls == {[args |-> <<>>, kw |-> <<>>], [args |-> <<100>>, kw |-> <<>>]}

\* the ways the model passes method and alpha to get_re_stats
MethodCalls ==
    {[args |-> <<>>, kw |-> <<>>]}
    \cup {[args |-> <<m>>, kw |-> <<>>] : m \in Methods}
    \cup {[args |-> <<>>, kw |-> << <<"method", "PL">> >>]}

InitContainer ==
    /\ \E d \in 1..MaxDatasets, xk \in {"intercept", "both"}, est \in {"WLS", "Hedges"} :
         /\ insts = [s \in InstIds |-> MakeInst(d, xk, est)]
         /\ dataset = MakeInst(d, xk, est).dataset
         /\ estimator = est
         /\ results = MakeInst(d, xk, est).results
    /\ n_perm_arg = DefaultPerm
    /\ pc = "idle"
    /\ IdleLocals
    /\ InitCaches
    /\ calls = 0
    /\ last = [op |-> "none"]
    /\ fe_first = <<>>
    /\ IdleCombination

\* the stats object first computed for (self, alpha), NoneVal when none was
FirstComputed(hist, self, alpha) ==
    LET at == {a \in 1..Len(hist) : hist[a].self = self /\ hist[a].alpha = alpha}
    IN  IF at = {} THEN NoneVal ELSE Some(hist[MinOf(at)].value)

\* one call self.get_fe_stats(*args, **kw) through the lru_cache wrapper
FeStatsCall(self, args, kw) ==
    LET alpha == Bind(args, kw, 1, "alpha", DefaultAlpha)
        r == LruCall(fe_cache, FeCacheSize, Key(self, args, kw),
                     GetFeStats(self, insts[self].results.fe_params, alpha, next_id))
    IN  [cache |-> r.cache, value |-> r.value, computed |-> ~r.hit, alpha |-> alpha,
         prior |-> FirstComputed(fe_first, self, alpha),
         next_id |-> IF r.hit THEN next_id ELSE next_id + 1,
         history |-> IF r.hit THEN fe_first
                     ELSE Append(fe_first, [self |-> self, alpha |-> alpha,
                                            value |-> r.value])]

CallFrame ==
    /\ calls < MaxCalls
    /\ calls' = calls + 1
    /\ UNCHANGED <<invars, ptvars, insts, combvars>>

CallGetFeStats ==
    /\ pc = "idle"
    /\ \E s \in InstIds, c \in AlphaCalls :
         LET r == FeStatsCall(s, c.args, c.kw)
         IN  /\ fe_cache' = r.cache
             /\ next_id' = r.next_id
             /\ fe_first' = r.history
             /\ last' = [op |-> "get_fe_stats", self |-> s, alpha |-> r.alpha,
                         value |-> r.value, computed |-> r.computed,
                         prior |-> r.prior]
    /\ UNCHANGED re_cache
    /\ CallFrame

\* one call self.get_re_stats(*args, **kw) through the lru_cache wrapper: a
\* cached value is returned without running the body; a body that raises
\* leaves nothing in the cache
CallGetReStats ==
    /\ pc = "idle"
    /\ \E s \in InstIds, c \in MethodCalls :
         LET method == Bind(c.args, c.kw, 1, "method", "QP")
             alpha == Bind(c.args, c.kw, 2, "alpha", DefaultAlpha)
             key == Key(s, c.args, c.kw)
             cached == \E a \in 1..Len(re_cache) : re_cache[a].key = key
             body == GetReStats(insts[s].results.tau2, method, alpha, next_id)
         IN  IF ~cached /\ body.raised
             THEN /\ last' = [op |-> "get_re_stats", self |-> s, method |-> method,
                              alpha |-> alpha, raised |-> TRUE, error |-> body.error,
                              message |-> body.message,
                              q_profile_calls |-> body.q_profile_calls]
                  /\ UNCHANGED <<re_cache, next_id>>
             ELSE LET r == LruCall(re_cache, ReCacheSize, key,
                                   IF body.raised THEN NoneVal ELSE body.value)
                  IN  /\ re_cache' = r.cache
                      /\ next_id' = IF r.hit THEN next_id ELSE next_id + 1
                      /\ last' = [op |-> "get_re_stats", self |-> s, method |-> method,
                                  alpha |-> alpha, raised |-> FALSE, value |-> r.value,
                                  q_profile_calls |->
                                      IF r.hit THEN 0 ELSE body.q_profile_calls]
    /\ UNCHANGED <<fe_cache, fe_first>>
    /\ CallFrame

\* 'ci_{:.6g}'.format(q) for the quantile q, held in two-thousandths
CiLabel(q) == <<"ci", q, 2000>>

\* pd.DataFrame({k: v.ravel() ...}): one column per key, in the dict's order
FrameOf(keys) == [c \in 1..Len(keys) |-> [label |-> keys[c], data |-> keys[c]]]
\* df.loc[:, labels]: the columns with these labels, in this order
Select(cols, labels) ==
    [c \in 1..Len(labels) |->
        cols[CHOOSE a \in 1..Len(cols) : cols[a].label = labels[c]]]
\* df.columns = labels: relabel by position
Relabel(cols, labels) == [c \in 1..Len(cols) |-> [cols[c] EXCEPT !.label = labels[c]]]

\* the guard of to_df: more than one set of results
MultiGuardLoose(b_shape) == Len(b_shape) > 1 /\ b_shape[2] > 2
MultiGuard(b_shape) == Len(b_shape) > 1 /\ b_shape[2] > 1

\* lines 107-113: the table built from the stats dict
Table(n_rows, alpha) ==
    LET df1 == FrameOf(FeStatsKeys)
        df2 == Append(df1, [label |-> "name", data |-> "X_names"])
        df3 == Select(df2, <<"name", "est", "se", "z", "p", "ci_l", "ci_u">>)
    IN  [rows |-> n_rows,
         columns |-> Relabel(df3, <<"name", "estimate", "se", "z-score", "p-value",
                                    CiLabel(alpha), CiLabel(2000 - alpha)>>)]

\* self.to_df(*args, **kw)
CallToDf ==
    /\ pc = "idle"
    /\ \E s \in InstIds, c \in ToDfCalls :
         LET alpha == Bind(c.args, c.kw, 1, "alpha", DefaultAlpha)
             b_shape == Shape(insts[s].results.fe_params)
         IN  IF MultiGuard(b_shape)
             THEN /\ last' = [op |-> "to_df", self |-> s, alpha |-> alpha,
                              raised |-> TRUE, error |-> "ValueError"]
                  /\ UNCHANGED <<fe_cache, next_id, fe_first>>
             ELSE LET r == FeStatsCall(s, <<alpha>>, <<>>)
                  IN  /\ fe_cache' = r.cache
                      /\ next_id' = r.next_id
                      /\ fe_first' = r.history
                      /\ last' = [op |-> "to_df", self |-> s, alpha |-> alpha,
                                  raised |-> FALSE,
                                  df |-> Table(b_shape[1] * b_shape[2], alpha)]
    /\ UNCHANGED re_cache
    /\ CallFrame

\* list(df.columns).index(label), 0-based
ColumnIndex(cols, label) == (CHOOSE a \in 1..Len(cols) : cols[a].label = label) - 1

\* df.insert(loc, label, data): the new column stands at 0-based position loc
Insert(cols, loc, label, data) ==
    SubSeq(cols, 1, loc) \o <<[label |-> label, data |-> data]>>
        \o SubSeq(cols, loc + 1, Len(cols))

\* lines 256-270: PermutationTestResults.to_df(*args, **kw) on the object
\* permutation_test returned; self.results.to_df(alpha) raises or fills the
\* get_fe_stats cache under the key (results, alpha)
ResultToDf ==
    /\ pc = "done"
    /\ calls < MaxCalls
    /\ calls' = calls + 1
    /\ \E c \in ToDfCalls :
         LET alpha == Bind(c.args, c.kw, 1, "alpha", DefaultAlpha)
             b_shape == Shape(results.fe_params)
         IN  IF MultiGuard(b_shape)
             THEN /\ last' = [op |-> "ptr.to_df", alpha |-> alpha,
                              raised |-> TRUE, error |-> "ValueError"]
                  /\ UNCHANGED <<fe_cache, next_id>>
             ELSE LET r == LruCall(fe_cache, FeCacheSize, Key(0, <<alpha>>, <<>>),
                                   GetFeStats(0, results.fe_params, alpha, next_id))
                      df == Table(b_shape[1] * b_shape[2], alpha)
                      p_ind == ColumnIndex(df.columns, "p-value")
                  IN  /\ fe_cache' = r.cache
                      /\ next_id' = IF r.hit THEN next_id ELSE next_id + 1
                      /\ last' = [op |-> "ptr.to_df", alpha |-> alpha,
                                  raised |-> FALSE,
                                  df |-> [df EXCEPT !.columns =
                                            Insert(@, p_ind + 1, "p-value (perm.)",
                                                   ret.val.fe_p)]]
    /\ UNCHANGED <<invars, ptvars, combvars, re_cache, insts, fe_first>>

NextPerm ==
    \/ Setup
    \/ RepeatColumns
    \/ PermuteExactOrderings
    \/ PermuteShuffle
    \/ PermuteExactSigns
    \/ PermuteRandomSigns
    \/ FitAndCompare
    \/ FloorAndReturn
    \/ ResultToDf

SpecPerm == InitPerm /\ [][NextPerm]_vars

NextContainer ==
    \/ CallGetFeStats
    \/ CallGetReStats
    \/ CallToDf

SpecContainer == InitContainer /\ [][NextContainer]_vars

(***************************************************************************)
(* CombinationTestResults: construction and the z and p properties.  Each  *)
(* property is the function under lru_cache(maxsize=1), so each has one    *)
(* cache entry, keyed by the instance and shared by all instances.         *)
(* A z-score array and a p-value array are sequences of rationals.         *)
(***************************************************************************)
\* the estimators whose summary is a CombinationTestResults (opaque names)
CombinationEstimators == {"Stouffers", "Fishers"}

\* the standard normal CDF on the z-scores of the model, to three decimals:
\* <<z, 1000 * cdf(z)>>
NormTable == {<<-1, 159>>, <<2, 977>>}

\* a float that is not a number
NaN == [nan |-> TRUE]

\* ss.norm.cdf and ss.norm.ppf on one value; ppf is nan outside (0, 1)
NormCdfAt(z) ==
    IF \E e \in NormTable : Rat(e[1], 1) = z
    THEN LET e == CHOOSE f \in NormTable : Rat(f[1], 1) = z IN Rat(e[2], 1000)
    ELSE NaN

NormPpfAt(q) ==
    IF \E e \in NormTable : Rat(e[2], 1000) = q
    THEN LET e == CHOOSE f \in NormTable : Rat(f[2], 1000) = q IN Rat(e[1], 1)
    ELSE NaN

\* ss.norm.cdf and ss.norm.ppf on an array
NormCdf(a) == [k \in 1..Len(a) |-> NormCdfAt(a[k])]
NormPpf(a) == [k \in 1..Len(a) |-> NormPpfAt(a[k])]

\* the arrays handed to the constructor: z-scores, and p-values
ArrayLens == {1, 2}
ZArrays == UNION {[1..n -> {Rat(e[1], 1) : e \in NormTable}] : n \in ArrayLens}
PArrays == UNION {[1..n -> {Rat(e[2], 1000) : e \in NormTable}] : n \in ArrayLens}

\* the heap and the two caches, passed through the property calls
CombState == [combs |-> combs, z_cache |-> z_cache, p_cache |-> p_cache]

\* the outcome of a property access: the state after it, and the value
\* returned or the exception raised
Returned(st, value) == [st |-> st, raised |-> FALSE, value |-> value]
Raised(st) == [st |-> st, raised |-> TRUE, value |-> NoneVal]

\* self.z and self.p, each through its lru_cache wrapper.  An exception
\* leaves no cache entry.  ss.norm.ppf(None) and ss.norm.cdf(None) raise
\* TypeError.
RECURSIVE PropZ(_, _), PropP(_, _)
PropZ(st, self) ==
    LET key == Key(self, <<>>, <<>>)
        look == LruCall(st.z_cache, 1, key, NoneVal)
    IN  IF look.hit THEN Returned(st, look.value)
        ELSE IF st.combs[self]._z = NoneVal
        THEN LET r == PropP(st, self)
             IN  IF r.raised \/ r.value = NoneVal THEN Raised(r.st)
                 ELSE LET zz == Some(NormPpf(r.value.val))
                          s2 == [r.st EXCEPT !.combs[self]._z = zz]
                      IN  Returned([s2 EXCEPT !.z_cache =
                                       LruCall(s2.z_cache, 1, key, zz).cache], zz)
        ELSE LET zz == st.combs[self]._z
             IN  Returned([st EXCEPT !.z_cache =
                              LruCall(st.z_cache, 1, key, zz).cache], zz)

PropP(st, self) ==
    LET key == Key(self, <<>>, <<>>)
        look == LruCall(st.p_cache, 1, key, NoneVal)
        \* return self._z
        Out(s2) == LET v == s2.combs[self]._z
                   IN  Returned([s2 EXCEPT !.p_cache =
                                    LruCall(s2.p_cache, 1, key, v).cache], v)
    IN  IF look.hit THEN Returned(st, look.value)
        ELSE IF st.combs[self]._p = NoneVal
        THEN LET r == PropZ(st, self)
             IN  IF r.raised \/ r.value = NoneVal THEN Raised(r.st)
                 ELSE Out([r.st EXCEPT !.combs[self]._p =
                                          Some(NormCdf(r.value.val))])
        ELSE Out(st)

InitCombination ==
    /\ \E est \in CombinationEstimators, n \in 2..MaxObs :
         /\ estimator = est
         /\ dataset = MakeDataset(n, <<"pos">>, "equal", "intercept")
    /\ results = NoneVal
    /\ n_perm_arg = DefaultPerm
    /\ pc = "comb"
    /\ IdleLocals
    /\ InitCaches
    /\ IdleContainer
    /\ IdleCombination

\* CombinationTestResults(estimator, dataset, z=z, p=p).  given is history:
\* the z and p the constructor was called with.
Construct ==
    /\ pc = "comb"
    /\ Len(combs) < Cardinality(InstIds)
    /\ \E z \in {NoneVal} \cup {Some(a) : a \in ZArrays},
          p \in {NoneVal} \cup {Some(a) : a \in PArrays} :
         IF p = NoneVal /\ z = NoneVal
         THEN /\ last' = [op |-> "init", raised |-> TRUE, z |-> z, p |-> p]
              /\ UNCHANGED combs
         ELSE /\ last' = [op |-> "init", raised |-> FALSE, z |-> z, p |-> p]
              /\ combs' = Append(combs, [estimator |-> estimator,
                                         dataset |-> dataset,
                                         _z |-> z, _p |-> p,
                                         given |-> [z |-> z, p |-> p]])
    /\ UNCHANGED <<invars, ptvars, cachevars, insts, calls, fe_first,
                   z_cache, p_cache>>

AccessFrame(op, self, r) ==
    /\ calls < MaxCalls
    /\ calls' = calls + 1
    /\ combs' = r.st.combs
    /\ z_cache' = r.st.z_cache
    /\ p_cache' = r.st.p_cache
    /\ last' = [op |-> op, self |-> self, raised |-> r.raised, value |-> r.value]
    /\ UNCHANGED <<invars, ptvars, cachevars, insts, fe_first>>

\* inst.z
AccessZ ==
    /\ pc = "comb"
    /\ \E s \in 1..Len(combs) : AccessFrame("z", s, PropZ(CombState, s))

\* inst.p
AccessP ==
    /\ pc = "comb"
    /\ \E s \in 1..Len(combs) : AccessFrame("p", s, PropP(CombState, s))

NextCombination ==
    \/ Construct
    \/ AccessZ
    \/ AccessP

SpecCombination == InitCombination /\ [][NextCombination]_vars

\* the whole model: a run of permutation_test, or calls on a container
Init == InitPerm \/ InitContainer \/ InitCombination
Next == NextPerm \/ NextContainer \/ NextCombination
Spec == Init /\ [][Next]_vars
(***************************************************************************)
(* Properties of permutation_test (checked under SpecPerm).                *)
(***************************************************************************)
\* the size of the permutation universe of the dataset's design: n! orderings
\* when it has moderators, 2^n sign patterns when it is intercept-only
UniverseSize ==
    IF HasModerators(dataset.X) THEN Factorial(Len(dataset.y[1]))
    ELSE 2^Len(dataset.y[1])

\* C1: permutation_test is exact iff the universe size of the design is
\* strictly smaller than the requested n_perm; the recorded n_perm is the
\* universe size when exact and the requested n_perm otherwise, and so never
\* larger than the requested one.
C1_ExactIffUniverseSmaller ==
    pc = "done" =>
        /\ ret.val.exact = (UniverseSize < n_perm_arg)
        /\ ret.val.n_perm = IF UniverseSize < n_perm_arg THEN UniverseSize
                            ELSE n_perm_arg
        /\ ret.val.n_perm <= n_perm_arg

\* C2: in exact mode the batch of permuted y columns handed to _fit holds
\* every element of the design's permutation universe exactly once: every
\* ordering of the rows when the design has moderators, every sign pattern
\* when it is intercept-only, and as many columns as the universe has elements.
C2_ExactBatchIsUniverse ==
    (pc = "fit" /\ exact) =>
        LET y == dataset.y[i]
            n == Len(y)
        IN  IF HasModerators(dataset.X)
            THEN /\ Len(y_perm.cols) = Factorial(n)
                 /\ \A o \in Orderings(n) :
                      Cardinality({j \in 1..Len(y_perm.cols) :
                                      y_perm.cols[j] = Take(y, o)}) = 1
            ELSE /\ Len(y_perm.cols) = 2^n
                 /\ \A sg \in SignPatterns(n) :
                      Cardinality({j \in 1..Len(y_perm.cols) :
                                      y_perm.cols[j] = Times(y, sg)}) = 1

\* C3: in every permuted copy, row k of column j of (y_perm, v_perm) is the
\* (y, v) pair of one original study, up to the sign of y when signs are
\* flipped: y and v (or n) are permuted identically.
C3_PairingPreserved ==
    pc = "fit" =>
        LET y == dataset.y[i]
            v == dataset[VSource][i]
        IN  \A j \in 1..Len(y_perm.cols) : \A k \in 1..Len(y) :
                \E st \in 1..Len(y) :
                    /\ v_perm.cols[j][k] = v[st]
                    /\ \/ y_perm.cols[j][k] = y[st]
                       \/ ~has_mods /\ y_perm.cols[j][k] = -y[st]

\* the fraction of fitted values whose magnitude strictly exceeds |obs|
AbsExceedFraction(obs, fitted) ==
    Rat(Cardinality({j \in 1..Len(fitted) :
                        RatLess(RatAbs(obs), RatAbs(fitted[j]))}),
        Len(fitted))

\* C4: before flooring, the permutation p-value of each fixed-effect
\* coefficient of each dataset is the fraction of permuted fits whose
\* absolute coefficient strictly exceeds the absolute observed coefficient
\* (so it is the same for an observed b and -b).
C4_PValueUsesMagnitudes ==
    (pc \in {"repeat", "floor"} /\ params.fe_params # <<>>) =>
        \A r \in 1..Len(fe_p[i - 1]) :
            RatEq(fe_p[i - 1][r],
                  AbsExceedFraction(results.fe_params[i - 1][r],
                      [j \in 1..n_perm |-> params.fe_params[j][r]]))

\* every entry of the returned fe_p and tau2_p satisfies P
AllReturned(r, P(_)) ==
    /\ \A c \in 1..Len(r.fe_p) : \A k \in 1..Len(r.fe_p[c]) : P(r.fe_p[c][k])
    /\ r.tau2_p.some => \A c \in 1..Len(r.tau2_p.val) : P(r.tau2_p.val[c])

\* C5: every returned permutation p-value (each entry of fe_p, and of tau2_p
\* when the results carry a tau2) is at least 1/n_perm and at most 1, n_perm
\* being the one recorded in the returned object; a raw fraction below
\* 1/n_perm is returned as exactly 1/n_perm, and the call returns.
C5_PValuesFloored ==
    [][pc = "floor" =>
         /\ pc' = "done" /\ ret'.some
         /\ LET r == ret'.val
                InRange(q) == RatLeq(Rat(1, r.n_perm), q) /\ RatLeq(q, Rat(1, 1))
            IN  /\ AllReturned(r, InRange)
                /\ \A c \in 1..Len(fe_p) : \A k \in 1..Len(fe_p[c]) :
                     RatLess(fe_p[c][k], Rat(1, r.n_perm))
                         => r.fe_p[c][k] = Rat(1, r.n_perm)
                /\ rfx => /\ r.tau2_p.some
                          /\ \A c \in 1..Len(tau_p.val) :
                               RatLess(tau_p.val[c], Rat(1, r.n_perm))
                                   => r.tau2_p.val[c] = Rat(1, r.n_perm)]_vars

\* a call has returned p-values of a random-effects fit, one of them raised
\* to the floor 1/n_perm and one above it
C5_Witness ==
    /\ pc = "done" /\ rfx /\ ret.val.tau2_p.some /\ ret.val.n_perm > 1
    /\ \E c \in 1..Len(ret.val.fe_p) : \E k \in 1..Len(ret.val.fe_p[c]) :
         ret.val.fe_p[c][k] = Rat(1, ret.val.n_perm)
    /\ \E c \in 1..Len(ret.val.fe_p) : \E k \in 1..Len(ret.val.fe_p[c]) :
         RatLess(Rat(1, ret.val.n_perm), ret.val.fe_p[c][k])

\* C6: the orderings universe (n! elements) is used exactly when the design
\* has a non-intercept predictor, the sign-flip universe (2^n elements)
\* exactly when it is intercept-only; a lone covariate column without an
\* intercept counts as having moderators.
C6_UniverseFollowsDesign ==
    pc \in {"repeat", "permute", "fit", "floor", "done"} =>
        /\ has_mods = HasModerators(dataset.X)
        /\ n_exact = IF HasModerators(dataset.X) THEN Factorial(n_obs) ELSE 2^n_obs

\* C10: permutation_test leaves results.dataset (y, v, n, X) and
\* results.fe_params, fe_cov and tau2 as they were: no step of it changes them.
C10_InputsReadOnly ==
    [][dataset' = dataset /\ results' = results]_vars

\* a Monte Carlo test with moderators has returned, and its private copy of
\* the last y column was shuffled in place
C10_Witness ==
    /\ pc = "done" /\ has_mods /\ ~exact
    /\ \E j \in 1..Len(y_perm.cols) : y_perm.cols[j] # dataset.y[n_datasets]

(***************************************************************************)
(* Properties of the container (checked under SpecContainer).              *)
(***************************************************************************)
\* C7: a get_fe_stats call on an instance with an alpha for which that
\* instance already computed the statistics returns the very object computed
\* first and computes nothing, however alpha was passed.
C7_NeverRecomputed ==
    (last.op = "get_fe_stats" /\ last.prior.some) =>
        /\ last.value.id = last.prior.val.id
        /\ ~last.computed

\* C8: to_df raises, returning no table, iff fe_params has more than one
\* column (parallel dataset); otherwise it returns one row per predictor and
\* the 7 columns name, estimate, se, z-score, p-value, lower CI bound, upper
\* CI bound, in this order.
C8_ToDfShape ==
    last.op = "to_df" =>
        LET inst == insts[last.self]
            n_pred == Len(inst.dataset.X)
        IN  /\ last.raised = (Len(inst.results.fe_params) > 1)
            /\ last.raised => "df" \notin DOMAIN last
            /\ ~last.raised =>
                 /\ last.df.rows = n_pred
                 /\ Len(last.df.columns) = 7
                 /\ [c \in 1..7 |-> last.df.columns[c].label] =
                        <<"name", "estimate", "se", "z-score", "p-value",
                          <<"ci", last.alpha, 2000>>,
                          <<"ci", 2000 - last.alpha, 2000>> >>
                 /\ [c \in 1..7 |-> last.df.columns[c].data] =
                        <<"X_names", "est", "se", "z", "p", "ci_l", "ci_u">>

\* to_df has returned the table of a two-predictor, single-dataset fit
C8_Witness ==
    /\ last.op = "to_df" /\ ~last.raised
    /\ Len(insts[last.self].dataset.X) = 2
    /\ last.df.rows = 2

\* C9: get_re_stats accepts only 'QP': any other method raises an error
\* naming the method, returns nothing and runs no Q-Profile computation;
\* for 'QP' it returns one (ci_l, ci_u) pair per parallel dataset.
C9_OnlyQProfile ==
    last.op = "get_re_stats" =>
        IF last.method # "QP"
        THEN /\ last.raised
             /\ last.message[2] = last.method
             /\ last.q_profile_calls = 0
             /\ "value" \notin DOMAIN last
        ELSE /\ ~last.raised
             /\ Len(last.value.ci_l) = Len(insts[last.self].dataset.y)
             /\ Len(last.value.ci_u) = Len(insts[last.self].dataset.y)

(***************************************************************************)
(* Properties of CombinationTestResults (checked under SpecCombination).   *)
(***************************************************************************)
\* C11: a construction raises exactly when neither z nor p is given; on an
\* instance, the z accessor returns the z-scores and the p accessor the
\* p-values: the array given at construction unchanged, or else the one
\* derived from the other (z = norm.ppf(p), p = norm.cdf(z)).  The p accessor
\* never returns the z-scores or None.
C11_AccessorsReturnOwnValues ==
    pc = "comb" =>
        /\ last.op = "init" => (last.raised <=> (last.z = NoneVal /\ last.p = NoneVal))
        /\ last.op \in {"z", "p"} =>
              LET given == combs[last.self].given
                  zs == IF given.z # NoneVal THEN given.z
                        ELSE Some(NormPpf(given.p.val))
                  ps == IF given.p # NoneVal THEN given.p
                        ELSE Some(NormCdf(given.z.val))
              IN  /\ ~last.raised
                  /\ last.op = "z" => last.value = zs
                  /\ last.op = "p" => last.value = ps
====
